---- MODULE Spec2Model ----
(***************************************************************************)
(* Model of typing_1.py: a batch script that loads typing_data.csv,        *)
(* derives calendar and error-rate columns, and runs six chart builders in *)
(* sequence, each saving an interactive .html and a static .png under      *)
(* visuals/.                                                               *)
(*                                                                         *)
(* Representation.                                                         *)
(*  - Strings that the program transforms (file names, user ids) are       *)
(*    sequences of tokens, so that str.replace and f-string concatenation  *)
(*    are computed rather than assumed.                                    *)
(*  - test_date is the number of days since Monday 2024-01-01, so that     *)
(*    day_name() and isocalendar().week are arithmetic on the ordinal.     *)
(*  - Floating point quantities (wpm, accuracy) are integers; means and    *)
(*    ratios are exact fractions [num, den] in lowest terms.               *)
(***************************************************************************)
EXTENDS Integers, Sequences, FiniteSets, TLC

VARIABLES csv, df, pc, failedAt, started, files, saves,
          bar_fig, timeline_fig, daily_fig, dash_done

vars == <<csv, df, pc, failedAt, started, files, saves,
          bar_fig, timeline_fig, daily_fig, dash_done>>

-----------------------------------------------------------------------------
(* Bounds of the model *)

MaxRowsUsers == 2
MaxRowsAccuracy == 2
MaxRowsTimeline == 3
MaxRowsBar == 3
MaxRowsDaily == 3
MaxDate == 7

-----------------------------------------------------------------------------
(* Generic helpers *)

Range(s) == {s[i] : i \in 1..Len(s)}

Abs(x) == IF x < 0 THEN -x ELSE x

RECURSIVE GCD(_, _)
GCD(a, b) == IF b = 0 THEN a ELSE GCD(b, a % b)

\* An exact quotient n/d (d > 0) in lowest terms.
Frac(n, d) ==
    LET g == GCD(Abs(n), d)
    IN  [num |-> n \div g, den |-> d \div g]

RECURSIVE Sum(_)
Sum(s) == IF s = <<>> THEN 0 ELSE s[1] + Sum(Tail(s))

RECURSIVE SeqMax(_)
SeqMax(s) ==
    IF Len(s) = 1 THEN s[1]
    ELSE LET m == SeqMax(Tail(s)) IN IF s[1] > m THEN s[1] ELSE m

Column(rows, c) == [i \in 1..Len(rows) |-> rows[i][c]]

-----------------------------------------------------------------------------
(* Constants of the program *)

VISUALS_DIR == <<"visuals">>

RequiredColumns ==
    {"user_id", "test_date", "wpm", "accuracy", "session_duration_ms"}

weekday_order ==
    <<"Monday", "Tuesday", "Wednesday", "Thursday", "Friday", "Saturday",
      "Sunday">>

BuilderOrder ==
    <<"scatter", "bar", "timeline", "distribution", "daily", "dashboard">>

-----------------------------------------------------------------------------
(* pandas operations used by the program *)

\* Series.dt.day_name() of a date ordinal (ordinal 0 is a Monday).
day_name(d) == weekday_order[(d % 7) + 1]

\* Series.dt.isocalendar().week of a date ordinal within 2024, whose ISO
\* week 1 starts on ordinal 0.
iso_week(d) == (d \div 7) + 1

\* mean of a non-empty numeric column.
mean(s) == Frac(Sum(s), Len(s))

\* Series.unique(): the distinct values in order of first appearance.
RECURSIVE unique(_)
unique(s) ==
    IF s = <<>> THEN <<>>
    ELSE LET u == unique(SubSeq(s, 1, Len(s) - 1))
             x == s[Len(s)]
         IN  IF x \in Range(u) THEN u ELSE Append(u, x)

\* df[df[c] == v]: the rows whose column c holds v, in table order.
filter_eq(rows, c, v) == SelectSeq(rows, LAMBDA r : r[c] = v)

\* DataFrame.sort_values on integer keys: the rows in ascending key order.
\* Rows with equal keys keep their relative order (the sort pandas runs is
\* an insertion sort for tables of fewer than 17 rows).
sort_by_keys(rows, keys) ==
    LET n == Len(rows)
        pos(i) == Cardinality({j \in 1..n :
                      keys[j] < keys[i] \/ (keys[j] = keys[i] /\ j < i)}) + 1
    IN  [p \in 1..n |-> rows[CHOOSE i \in 1..n : pos(i) = p]]

sort_values_test_date(rows) == sort_by_keys(rows, Column(rows, "test_date"))

-----------------------------------------------------------------------------
(* load_and_preprocess_data *)

\* error_rate of one row.
error_rate_wpm(row) == 100 - row.wpm
error_rate(row) == 100 - row.accuracy

session_duration_min(row) == Frac(row.session_duration_ms, 1000 * 60)

enrich(row) ==
    [user_id |-> row.user_id,
     test_date |-> row.test_date,
     wpm |-> row.wpm,
     accuracy |-> row.accuracy,
     session_duration_ms |-> row.session_duration_ms,
     week |-> iso_week(row.test_date),
     day_of_week |-> day_name(row.test_date),
     session_duration_min |-> session_duration_min(row),
     error_rate |-> error_rate(row)]

\* The loader raises when a column it indexes is absent (KeyError) or when
\* pd.to_datetime meets a value it cannot parse.  It indexes test_date,
\* session_duration_ms and accuracy only.
LoaderColumns == {"test_date", "session_duration_ms", "accuracy"}

LoaderFails(c) ==
    \/ ~(LoaderColumns \subseteq c.columns)
    \/ c.bad_timestamp

load_and_preprocess_data(c) ==
    [columns |-> c.columns \cup
                 {"week", "day_of_week", "session_duration_min", "error_rate"},
     day_of_week_dtype |-> "object",
     rows |-> [i \in 1..Len(c.rows) |-> enrich(c.rows[i])]]

NoTable == [columns |-> {}, day_of_week_dtype |-> "none", rows |-> <<>>]

-----------------------------------------------------------------------------
(* save_plot *)

\* str.replace('.html', '.png'): every occurrence is replaced.
replace_html_png(name) ==
    [i \in 1..Len(name) |-> IF name[i] = ".html" THEN ".png" ELSE name[i]]

html_path(filename) == VISUALS_DIR \o <<"/">> \o filename
png_path(filename) == VISUALS_DIR \o <<"/">> \o replace_html_png(filename)

\* Outcomes of one builder call: the figure cannot be built, write_html
\* raises, write_image raises, or both files are written.
Outcomes == {"ok", "render_fail", "html_fail", "image_fail"}

written(filename, outcome) ==
    CASE outcome = "ok" -> <<html_path(filename), png_path(filename)>>
      [] outcome = "image_fail" -> <<html_path(filename)>>
      [] OTHER -> <<>>

-----------------------------------------------------------------------------
(* Inputs: the tables typing_data.csv may hold *)

UserA == <<"a">>
UserB == <<"b">>
UserAHtml == <<"a", ".html">>
UserAPng == <<"a", ".png">>

RawRows(U, D, W, A, M) ==
    [user_id : U, test_date : D, wpm : W, accuracy : A,
     session_duration_ms : M]

Tables(R, n) == UNION {[1..k -> R] : k \in 1..n}

\* Tables that vary the user ids.
UserTables ==
    Tables(RawRows({UserA, UserB, UserAHtml, UserAPng}, {0}, {40}, {90},
                   {60000}), MaxRowsUsers)

\* Tables that vary accuracy and duration.
AccuracyTables ==
    Tables(RawRows({UserA}, {0}, {40}, {0, 37, 100}, {30000, 90000}),
           MaxRowsAccuracy)

\* Tables that vary user, date and wpm (wpm 0 is a valid speed).
TimelineTables ==
    Tables(RawRows({UserA, UserB}, {0, 1}, {0, 50}, {90}, {60000}),
           MaxRowsTimeline)

\* Tables that vary user and wpm.
BarTables ==
    Tables(RawRows({UserA, UserB}, {0}, {30, 40, 60}, {90}, {60000}),
           MaxRowsBar)

\* Tables that vary the date over more than a week.
DailyTables ==
    Tables(RawRows({UserA}, 0..MaxDate, {40}, {90}, {60000}), MaxRowsDaily)

ExampleRow(u, d, w) ==
    [user_id |-> u, test_date |-> d, wpm |-> w, accuracy |-> 90,
     session_duration_ms |-> 60000]

\* Users A: 40, 50, 60 and B: 30, 30, 30.
ExampleTable ==
    <<ExampleRow(UserA, 0, 40), ExampleRow(UserB, 0, 30),
      ExampleRow(UserA, 1, 50), ExampleRow(UserB, 1, 30),
      ExampleRow(UserA, 2, 60), ExampleRow(UserB, 2, 30)>>

ValidTables ==
    UserTables \cup AccuracyTables \cup TimelineTables \cup BarTables
        \cup DailyTables \cup {ExampleTable}

SampleTable == <<ExampleRow(UserA, 0, 40), ExampleRow(UserB, 1, 30)>>

ValidInputs ==
    {[rows |-> t, columns |-> RequiredColumns, bad_timestamp |-> FALSE] :
        t \in ValidTables}

\* Inputs with one required column absent, or with an unparseable test_date.
InvalidInputs ==
    {[rows |-> SampleTable, columns |-> RequiredColumns \ {c},
      bad_timestamp |-> FALSE] : c \in RequiredColumns}
    \cup {[rows |-> SampleTable, columns |-> RequiredColumns,
           bad_timestamp |-> TRUE]}

Inputs == ValidInputs \cup InvalidInputs

-----------------------------------------------------------------------------
(* main: the sequence of stages *)

NextStage(b) ==
    CASE b = "load" -> "scatter"
      [] b = "scatter" -> "bar"
      [] b = "bar" -> "timeline"
      [] b = "timeline" -> "distribution"
      [] b = "distribution" -> "daily"
      [] b = "daily" -> "dashboard"
      [] b = "dashboard" -> "done"

\* An exception raised in a stage is not caught by main: the run ends.
AfterFailure_continue(b) == NextStage(b)
AfterFailure(b) == "failed"

\* The columns a builder names in its chart-library calls; a name that is
\* not a column of the table makes the call raise.
UsedColumns(b) ==
    CASE b = "scatter" ->
            {"wpm", "accuracy", "user_id", "test_date", "session_duration_min"}
      [] b = "bar" -> {"user_id", "wpm"}
      [] b = "timeline" ->
            {"test_date", "wpm", "user_id", "accuracy", "session_duration_min"}
      [] b = "distribution" -> {"wpm", "accuracy"}
      [] b = "daily" -> {"test_date", "wpm"}
      [] b = "dashboard" ->
            {"user_id", "test_date", "wpm", "accuracy", "session_duration_min",
             "week"}

Effective(b, outcome) ==
    IF UsedColumns(b) \subseteq df.columns THEN outcome ELSE "render_fail"

\* The part every builder shares: build the figure, call save_plot, return
\* to main (or raise through it).
Finish(b, filename, outcome, next) ==
    /\ files' = files \cup Range(written(filename, outcome))
    /\ saves' = IF outcome = "render_fail" THEN saves
                ELSE Append(saves, [builder |-> b,
                                    filename |-> filename,
                                    wrote |-> written(filename, outcome),
                                    completed |-> (outcome = "ok")])
    /\ pc' = IF outcome = "ok" THEN next ELSE AfterFailure(b)
    /\ failedAt' = IF outcome = "ok" THEN failedAt ELSE b

Init ==
    /\ csv \in Inputs
    /\ df = NoTable
    /\ pc = "load"
    /\ failedAt = "none"
    /\ started = <<>>
    /\ files = {}
    /\ saves = <<>>
    /\ bar_fig = [built |-> FALSE, avg_stats |-> <<>>, hline |-> Frac(0, 1)]
    /\ timeline_fig = [built |-> FALSE, annotations |-> <<>>,
                       divisions |-> <<>>]
    /\ daily_fig = [built |-> FALSE, rows |-> <<>>]
    /\ dash_done = 0

Load ==
    /\ pc = "load"
    /\ IF LoaderFails(csv)
         THEN /\ pc' = AfterFailure("load")
              /\ failedAt' = "load"
              /\ df' = df
         ELSE /\ pc' = NextStage("load")
              /\ failedAt' = failedAt
              /\ df' = load_and_preprocess_data(csv)
    /\ UNCHANGED <<csv, started, files, saves, bar_fig, timeline_fig,
                   daily_fig, dash_done>>

-----------------------------------------------------------------------------
(* create_scatter_plot *)

create_scatter_plot ==
    /\ pc = "scatter"
    /\ started' = Append(started, "scatter")
    /\ \E o \in Outcomes :
         Finish("scatter", <<"interactive_wpm_accuracy", ".html">>,
                Effective("scatter", o), NextStage("scatter"))
    /\ UNCHANGED <<csv, df, bar_fig, timeline_fig, daily_fig, dash_done>>

-----------------------------------------------------------------------------
(* create_avg_wpm_chart *)

\* The "wpm" column of one user's rows, as groupby("user_id") hands it to
\* the aggregations.
group_wpm(rows, user) == Column(filter_eq(rows, "user_id", user), "wpm")

\* avg_wpm=("wpm", "mean")
avg_wpm_of_all(rows, user) == mean(Column(rows, "wpm"))
avg_wpm(rows, user) == mean(group_wpm(rows, user))

\* best_wpm=("wpm", "max")
best_wpm(rows, user) == SeqMax(group_wpm(rows, user))

\* consistency=("wpm", "std"): the sample standard deviation, kept here as
\* its square; NaN (written 0/0) for a group of one row.
consistency_squared(rows, user) ==
    LET w == group_wpm(rows, user)
        n == Len(w)
        sq == [i \in 1..n |-> w[i] * w[i]]
    IN  IF n = 1 THEN [num |-> 0, den |-> 0]
        ELSE Frac(n * Sum(sq) - Sum(w) * Sum(w), n * (n - 1))

avg_stats(rows) ==
    LET users == unique(Column(rows, "user_id"))
    IN  [i \in 1..Len(users) |->
            [user_id |-> users[i],
             avg_wpm |-> avg_wpm(rows, users[i]),
             best_wpm |-> best_wpm(rows, users[i]),
             consistency_squared |-> consistency_squared(rows, users[i])]]

\* fig.add_hline(y=df["wpm"].mean())
hline_y(rows) == mean(Column(rows, "wpm"))

create_avg_wpm_chart ==
    /\ pc = "bar"
    /\ started' = Append(started, "bar")
    /\ \E o \in Outcomes :
         /\ Finish("bar", <<"bar_avg_wpm_by_user", ".html">>,
                   Effective("bar", o), NextStage("bar"))
         /\ bar_fig' = IF Effective("bar", o) = "render_fail" THEN bar_fig
                       ELSE [built |-> TRUE,
                             avg_stats |-> avg_stats(df.rows),
                             hline |-> hline_y(df.rows)]
    /\ UNCHANGED <<csv, df, timeline_fig, daily_fig, dash_done>>

-----------------------------------------------------------------------------
(* create_progress_timeline *)

\* if len(user_data) > 1
has_improvement_any(user_data) == Len(user_data) > 0
has_improvement(user_data) == Len(user_data) > 1

user_data_of(rows, user) ==
    sort_values_test_date(filter_eq(rows, "user_id", user))

\* (last - first) / first * 100.  Division of numpy scalars by zero does not
\* raise: it yields inf or nan, written here with denominator 0.
quotient_percent(dividend, divisor) ==
    IF divisor = 0
      THEN [num |-> IF dividend > 0 THEN 1 ELSE IF dividend < 0 THEN -1 ELSE 0,
            den |-> 0]
      ELSE Frac(dividend * 100, divisor)

\* The users of the annotation loop whose guard holds, in loop order.
annotated_users(rows) ==
    SelectSeq(unique(Column(rows, "user_id")),
              LAMBDA u : has_improvement(user_data_of(rows, u)))

division_of(rows, user) ==
    LET d == user_data_of(rows, user)
    IN  [user |-> user,
         dividend |-> d[Len(d)].wpm - d[1].wpm,
         divisor |-> d[1].wpm]

annotation_of(rows, user) ==
    LET d == user_data_of(rows, user)
        q == division_of(rows, user)
    IN  [user |-> user,
         x |-> d[Len(d)].test_date,
         y |-> d[Len(d)].wpm,
         improvement |-> quotient_percent(q.dividend, q.divisor)]

create_progress_timeline ==
    /\ pc = "timeline"
    /\ started' = Append(started, "timeline")
    /\ \E o \in Outcomes :
         /\ Finish("timeline", <<"typing_speed_over_time", ".html">>,
                   Effective("timeline", o), NextStage("timeline"))
         /\ timeline_fig' =
              IF Effective("timeline", o) = "render_fail" THEN timeline_fig
              ELSE LET us == annotated_users(df.rows)
                   IN  [built |-> TRUE,
                        annotations |->
                            [i \in 1..Len(us) |-> annotation_of(df.rows, us[i])],
                        divisions |->
                            [i \in 1..Len(us) |-> division_of(df.rows, us[i])]]
    /\ UNCHANGED <<csv, df, bar_fig, daily_fig, dash_done>>

-----------------------------------------------------------------------------
(* create_advanced_distribution *)

create_advanced_distribution ==
    /\ pc = "distribution"
    /\ started' = Append(started, "distribution")
    /\ \E o \in Outcomes :
         Finish("distribution", <<"performance_distributions", ".html">>,
                Effective("distribution", o), NextStage("distribution"))
    /\ UNCHANGED <<csv, df, bar_fig, timeline_fig, daily_fig, dash_done>>

-----------------------------------------------------------------------------
(* create_daily_patterns *)

\* The code of a day name in pd.Categorical(categories=weekday_order,
\* ordered=True): its position in weekday_order.
alphabetical_order ==
    <<"Friday", "Monday", "Saturday", "Sunday", "Thursday", "Tuesday",
      "Wednesday">>
category_code_alphabetical(name) ==
    CHOOSE i \in 1..Len(alphabetical_order) : alphabetical_order[i] = name
category_code(name) ==
    CHOOSE i \in 1..Len(weekday_order) : weekday_order[i] = name

\* df.sort_values("day_of_week") on the ordered categorical column.
sort_values_day_of_week(rows) ==
    sort_by_keys(rows,
                 [i \in 1..Len(rows) |-> category_code(rows[i].day_of_week)])

\* The two assignments to df["day_of_week"]: they write a column of the
\* table main holds, since df is passed by reference.
assign_day_of_week(d) ==
    [columns |-> d.columns \cup {"day_of_week"},
     day_of_week_dtype |-> "category",
     rows |-> [i \in 1..Len(d.rows) |->
                  [d.rows[i] EXCEPT !.day_of_week =
                      IF "day_of_week" \in d.columns THEN @
                      ELSE day_name(d.rows[i].test_date)]]]

create_daily_patterns ==
    /\ pc = "daily"
    /\ started' = Append(started, "daily")
    /\ \E o \in Outcomes :
         /\ Finish("daily", <<"daily_performance_patterns", ".html">>,
                   Effective("daily", o), NextStage("daily"))
         /\ df' = IF UsedColumns("daily") \subseteq df.columns
                    THEN assign_day_of_week(df) ELSE df
         /\ daily_fig' =
              IF Effective("daily", o) = "render_fail" THEN daily_fig
              ELSE [built |-> TRUE,
                    rows |-> sort_values_day_of_week(df'.rows)]
    /\ UNCHANGED <<csv, bar_fig, timeline_fig, dash_done>>

-----------------------------------------------------------------------------
(* create_user_dashboard: one step per iteration of its loop over users *)

dashboard_users(rows) == unique(Column(rows, "user_id"))

\* f"user_{user}_dashboard.html"
dashboard_filename(user) == <<"user_">> \o user \o <<"_dashboard", ".html">>

create_user_dashboard ==
    /\ pc = "dashboard"
    /\ started' = IF dash_done = 0 THEN Append(started, "dashboard")
                  ELSE started
    /\ LET users == dashboard_users(df.rows)
           user == users[dash_done + 1]
       IN  \E o \in Outcomes :
             /\ Finish("dashboard", dashboard_filename(user),
                       Effective("dashboard", o),
                       IF dash_done + 1 = Len(users)
                         THEN NextStage("dashboard") ELSE "dashboard")
             /\ dash_done' = IF Effective("dashboard", o) = "ok"
                               THEN dash_done + 1 ELSE dash_done
    /\ UNCHANGED <<csv, df, bar_fig, timeline_fig, daily_fig>>

-----------------------------------------------------------------------------
(* main *)

Next ==
    \/ Load
    \/ create_scatter_plot
    \/ create_avg_wpm_chart
    \/ create_progress_timeline
    \/ create_advanced_distribution
    \/ create_daily_patterns
    \/ create_user_dashboard

Spec == Init /\ [][Next]_vars

-----------------------------------------------------------------------------
(* Properties *)

Loaded == pc \notin {"load"} /\ failedAt # "load"

InputUsers == {csv.rows[i].user_id : i \in 1..Len(csv.rows)}

SessionsOf(u) == {i \in 1..Len(csv.rows) : csv.rows[i].user_id = u}

WpmTotalOf(u) ==
    Sum([i \in 1..Len(csv.rows) |->
            IF csv.rows[i].user_id = u THEN csv.rows[i].wpm ELSE 0])

WpmTotal == Sum([i \in 1..Len(csv.rows) |-> csv.rows[i].wpm])

BuilderIndex(b) == CHOOSE k \in 1..Len(BuilderOrder) : BuilderOrder[k] = b

RECURSIVE Flatten(_)
Flatten(ss) == IF ss = <<>> THEN <<>> ELSE ss[1] \o Flatten(Tail(ss))

WriteLog == Flatten([i \in 1..Len(saves) |-> saves[i].wrote])

\* C1: for every row of a valid input table, the loaded table's error_rate
\* is exactly 100 minus that row's accuracy, whatever the row's other fields.
C1_ErrorRateIsComplement ==
    Loaded =>
        /\ Len(df.rows) = Len(csv.rows)
        /\ \A i \in 1..Len(csv.rows) :
             df.rows[i].error_rate + csv.rows[i].accuracy = 100
        /\ \A i, j \in 1..Len(csv.rows) :
             csv.rows[i].accuracy = csv.rows[j].accuracy
                => df.rows[i].error_rate = df.rows[j].error_rate

C1_Witness ==
    /\ Loaded
    /\ \E i, j \in 1..Len(csv.rows) :
         /\ csv.rows[i].accuracy = 37 /\ df.rows[i].error_rate = 63
         /\ csv.rows[j].accuracy = 100 /\ df.rows[j].error_rate = 0
         /\ csv.rows[i].session_duration_ms # csv.rows[j].session_duration_ms

\* C2: the timeline performs a division and emits an annotation for exactly
\* the users with two or more sessions, once each; a user with fewer than
\* two sessions gets neither.
C2_AnnotationIffTwoSessions ==
    timeline_fig.built =>
        LET eligible == {u \in InputUsers : Cardinality(SessionsOf(u)) >= 2}
            ann == timeline_fig.annotations
            div == timeline_fig.divisions
        IN  /\ {ann[i].user : i \in 1..Len(ann)} = eligible
            /\ {div[i].user : i \in 1..Len(div)} = eligible
            /\ Len(ann) = Cardinality(eligible)
            /\ Len(div) = Cardinality(eligible)

C2_Witness ==
    /\ timeline_fig.built
    /\ Cardinality(SessionsOf(UserA)) = 1
    /\ Cardinality(SessionsOf(UserB)) = 2
    /\ Len(timeline_fig.annotations) = 1
    /\ timeline_fig.annotations[1].user = UserB

\* C3: no chart builder changes the table the loader returned: its columns,
\* values and column types are the same after each builder as before it.
C3_BuildersLeaveTableUnchanged == [][pc # "load" => df' = df]_vars

\* C4: an input missing a required column or holding an unparseable
\* timestamp aborts inside the loader: no builder is called, no file written.
C4_InvalidInputAbortsInLoader ==
    (pc # "load" /\ (~(RequiredColumns \subseteq csv.columns)
                        \/ csv.bad_timestamp))
        => /\ failedAt = "load"
           /\ started = <<>>
           /\ files = {}

\* C5: a completed run on N distinct users leaves 5 fixed charts (each an
\* .html with its .png) and 2 N dashboard files, nothing else, and no path
\* is written twice.
C5_ArtifactCount ==
    pc = "done" =>
        LET N == Cardinality(InputUsers)
            fixed == {i \in 1..Len(saves) : saves[i].builder # "dashboard"}
            fixedFiles == UNION {Range(saves[i].wrote) : i \in fixed}
        IN  /\ Cardinality(fixed) = 5
            /\ Cardinality(fixedFiles) = 2 * 5
            /\ Cardinality(files \ fixedFiles) = 2 * N
            /\ Cardinality(fixed) + Cardinality(files \ fixedFiles) = 5 + 2 * N
            /\ Range(WriteLog) = files
            /\ Len(WriteLog) = Cardinality(files)

\* C6: in the bar chart each user's avg_wpm is the arithmetic mean of that
\* user's own wpm values, and the reference line is the mean of the wpm of
\* all sessions; users A: 40,50,60 and B: 30,30,30 give 50, 30 and 40.
C6_MeansAreArithmetic ==
    bar_fig.built =>
        LET st == bar_fig.avg_stats
        IN  /\ {st[i].user_id : i \in 1..Len(st)} = InputUsers
            /\ Len(st) = Cardinality(InputUsers)
            /\ \A i \in 1..Len(st) :
                 /\ st[i].avg_wpm.den > 0
                 /\ st[i].avg_wpm.num * Cardinality(SessionsOf(st[i].user_id))
                      = st[i].avg_wpm.den * WpmTotalOf(st[i].user_id)
            /\ bar_fig.hline.den > 0
            /\ bar_fig.hline.num * Len(csv.rows) = bar_fig.hline.den * WpmTotal
            /\ csv.rows = ExampleTable =>
                 /\ \A i \in 1..Len(st) :
                      /\ st[i].user_id = UserA
                           => st[i].avg_wpm = [num |-> 50, den |-> 1]
                      /\ st[i].user_id = UserB
                           => st[i].avg_wpm = [num |-> 30, den |-> 1]
                 /\ bar_fig.hline = [num |-> 40, den |-> 1]

C6_Witness ==
    /\ bar_fig.built
    /\ csv.rows = ExampleTable
    /\ Len(bar_fig.avg_stats) = 2
    /\ bar_fig.hline = [num |-> 40, den |-> 1]

\* C7: the rows handed to the box plot are the table's rows in the order
\* Monday, Tuesday, ..., Sunday of their day of week, for every order of the
\* input rows.
C7_RowsOrderedMondayToSunday ==
    daily_fig.built =>
        LET r == daily_fig.rows
        IN  /\ Len(r) = Len(csv.rows)
            /\ \A i, j \in 1..Len(r) :
                 i < j => (r[i].test_date % 7) <= (r[j].test_date % 7)
            /\ \A d \in 0..(MaxDate + 1) :
                 Cardinality({i \in 1..Len(r) : r[i].test_date = d})
                   = Cardinality({i \in 1..Len(csv.rows) :
                                     csv.rows[i].test_date = d})

C7_Witness ==
    /\ daily_fig.built
    /\ Len(csv.rows) >= 2
    /\ csv.rows[1].test_date = 2
    /\ csv.rows[2].test_date = 7
    /\ daily_fig.rows[1].test_date = 7

\* C8: every completed save wrote one interactive file and one static image,
\* both exist, and the image's path is the interactive file's path with only
\* the trailing .html changed to .png.
C8_StaticPathMatchesInteractivePath ==
    \A i \in 1..Len(saves) :
        saves[i].completed =>
            LET w == saves[i].wrote
            IN  /\ Len(w) = 2
                /\ w[1] \in files /\ w[2] \in files
                /\ w[1][Len(w[1])] = ".html"
                /\ w[2] = SubSeq(w[1], 1, Len(w[1]) - 1) \o <<".png">>

\* C9: builders start in the order scatter, bar, timeline, distribution,
\* weekly pattern, dashboard; once a stage has failed the run is over, no
\* later builder has started or written a file, and the files of the
\* builders that completed before it remain.
C9_FailureIsFatal ==
    /\ Len(started) <= Len(BuilderOrder)
    /\ started = SubSeq(BuilderOrder, 1, Len(started))
    /\ \A i \in 1..Len(saves) : Range(saves[i].wrote) \subseteq files
    /\ failedAt # "none" =>
         LET last == IF failedAt = "load" THEN 0 ELSE BuilderIndex(failedAt)
         IN  /\ pc = "failed"
             /\ Len(started) = last
             /\ \A i \in 1..Len(saves) : BuilderIndex(saves[i].builder) <= last
             /\ \A k \in 1..(last - 1) :
                  \E i \in 1..Len(saves) :
                      /\ saves[i].builder = BuilderOrder[k]
                      /\ saves[i].completed
                      /\ Len(saves[i].wrote) = 2

C9_Witness ==
    /\ pc = "failed"
    /\ failedAt = "timeline"
    /\ started = <<"scatter", "bar", "timeline">>
    /\ Cardinality(files) = 4

\* C10: whenever the timeline divides by a user's earliest wpm, that wpm is
\* not zero.
C10_DivisorNonzero ==
    \A i \in 1..Len(timeline_fig.divisions) :
        timeline_fig.divisions[i].divisor # 0

====
